---- MODULE Spec2Model ----
(***************************************************************************)
(* Yeti, a terminal text editor (src/yeti.c): the row buffer and its edit  *)
(* primitives, the frame render (scroll, gutter, cursor fix), the          *)
(* snapshot undo stack, save, quit, the prompt loop and incremental search.*)
(*                                                                         *)
(* Bytes are integers.  A row is the C struct erow: text holds the `size`  *)
(* bytes before the terminator.  The bytes that follow a row's terminator  *)
(* (stale or unallocated heap) are indeterminate; the variable junk fixes  *)
(* whether a read of one of them yields a tab.                             *)
(***************************************************************************)
EXTENDS Integers, Sequences, FiniteSets, TLC

VARIABLES
    state,      \* struct editorConfig state
    ur,         \* undoRedo ur: [states, size, currStateIndex]
    mode,       \* where the main loop waits for a key: "normal", a prompt, or ended
    buf,        \* editorPrompt's buf: the text typed so far, at its return the text returned
    find,       \* editorFindCallback's statics and editorFind's saved cursor
    key,        \* the last key editorReadKey returned (c)
    disk,       \* the bytes of the file on disk (NoFile while there is none)
    junk,       \* TRUE iff the bytes past a row's terminator read as tabs
    nkeys,      \* number of keys read so far
    call        \* a function run on its own: its arguments and what it returned

vars == <<state, ur, mode, buf, find, key, disk, junk, nkeys, call>>

----------------------------------------------------------------------------
(* Bounds of the model *)

MaxKeys == 3        \* keys read in one run
MaxBuf == 2         \* bytes typed into the search prompt
MaxLen == 3         \* bytes of a row whose columns are converted
MaxFindKeys == 4    \* keys read in a run that goes straight into a search
ScreenRows == 3     \* state.screenrows (terminal height - 2)
ScreenCols == 12    \* state.screencols

----------------------------------------------------------------------------
(* Bytes and key codes *)

NUL == 0
TAB == 9
LF == 10
CR == 13
ESC == 27
SPACE == 32
LBRACKET == 91
TILDE == 126
Ch0 == 48
Ch9 == 57
UpA == 65
UpB == 66
UpC == 67
UpD == 68
UpF == 70
UpH == 72
UpO == 79
ChA == 97
ChB == 98
ChF == 102
ChH == 104
ChQ == 113
ChS == 115
ChU == 117
YETI_TAB_STOP == 8

BACKSPACE == 127
ARROW_LEFT == 1000
ARROW_RIGHT == 1001
ARROW_UP == 1002
ARROW_DOWN == 1003
PAGE_UP == 1004
PAGE_DOWN == 1005
DEL_KEY == 1006
HOME_KEY == 1007
END_KEY == 1008

\* ((k) & 0x1f)
CTRL_KEY(k) == k % 32

\* storing an int into a char keeps its low eight bits
ToChar(c) == c % 256

NoName == <<>>
FileName == <<ChF>>

----------------------------------------------------------------------------
(* Sequence helpers *)

\* F applied to the value v: names an intermediate result once, like a C local
Bind(v, F(_)) == F(v)

\* s[from .. ] in 0-based C terms: the bytes from index `from` on
Tail0(s, from) == SubSeq(s, from + 1, Len(s))
\* the first n bytes
Take(s, n) == SubSeq(s, 1, n)

\* strdup: the bytes before the first terminator
RECURSIVE strdup(_)
strdup(s) ==
    IF s = <<>> \/ Head(s) = NUL THEN <<>>
    ELSE <<Head(s)>> \o strdup(Tail(s))

\* int calculateDigits(int num)
RECURSIVE calculateDigits(_)
calculateDigits(num) ==
    IF num = 0 THEN 0 ELSE 1 + calculateDigits(num \div 10)

----------------------------------------------------------------------------
(* Row operations *)

\* row->text[j] as the C code reads it: the text, its terminator, then
\* indeterminate bytes
ByteAt(row, j, jk) ==
    IF j < row.size THEN row.text[j + 1]
    ELSE IF j = row.size THEN NUL
    ELSE IF jk THEN TAB ELSE NUL

\* int editorRowCxToRx(erow* row, int cx)
RECURSIVE CxToRxFrom(_, _, _, _, _)
CxToRxFrom(row, cx, j, rx, jk) ==
    IF j >= cx THEN rx
    ELSE LET rx1 == IF ByteAt(row, j, jk) = TAB
                    THEN rx + (YETI_TAB_STOP - 1) - (rx % YETI_TAB_STOP)
                    ELSE rx
         IN  CxToRxFrom(row, cx, j + 1, rx1 + 1, jk)

\* editorRowCxToRx with a tab counted as one column
editorRowCxToRxFlat(row, cx, jk) == cx

editorRowCxToRx(row, cx, jk) == CxToRxFrom(row, cx, 0, 0, jk)

\* int editorRowRxToCx(erow* row, int rx)
RECURSIVE RxToCxFrom(_, _, _, _)
RxToCxFrom(row, rx, cx, cur_rx) ==
    IF cx >= row.size THEN cx
    ELSE LET c1 == IF row.text[cx + 1] = TAB
                   THEN cur_rx + (YETI_TAB_STOP - 1) - (cur_rx % YETI_TAB_STOP)
                   ELSE cur_rx
             c2 == c1 + 1
         IN  IF c2 > rx THEN cx ELSE RxToCxFrom(row, rx, cx + 1, c2)

\* editorRowRxToCx with if(cur_rx >= rx) return cx
RECURSIVE RxToCxEagerFrom(_, _, _, _)
RxToCxEagerFrom(row, rx, cx, cur_rx) ==
    IF cx >= row.size THEN cx
    ELSE LET c1 == IF row.text[cx + 1] = TAB
                   THEN cur_rx + (YETI_TAB_STOP - 1) - (cur_rx % YETI_TAB_STOP)
                   ELSE cur_rx
             c2 == c1 + 1
         IN  IF c2 >= rx THEN cx ELSE RxToCxEagerFrom(row, rx, cx + 1, c2)

editorRowRxToCxEager(row, rx) == RxToCxEagerFrom(row, rx, 0, 0)

editorRowRxToCx(row, rx) == RxToCxFrom(row, rx, 0, 0)

\* the second loop of editorUpdateRow: render built byte by byte
RECURSIVE PadToStop(_)
PadToStop(r) ==
    IF Len(r) % YETI_TAB_STOP # 0 THEN PadToStop(Append(r, SPACE)) ELSE r

RECURSIVE RenderFrom(_, _, _)
RenderFrom(text, j, r) ==
    IF j > Len(text) THEN r
    ELSE IF text[j] = TAB
         THEN RenderFrom(text, j + 1, PadToStop(Append(r, SPACE)))
         ELSE RenderFrom(text, j + 1, Append(r, text[j]))

\* void editorUpdateRow(erow* row)
editorUpdateRow(row) ==
    Bind(RenderFrom(Take(row.text, row.size), 1, <<>>),
         LAMBDA r : [row EXCEPT !.render = r, !.rsize = Len(r)])

\* A write before a row's text, a row taken from before the row array, a read
\* through the null row array: the run ends there as "crashed" and is followed
\* no further.
Crash(w) == [w EXCEPT !.alive = FALSE]

\* void editorInsertRow(int at, char *s, size_t len)
editorInsertRow(w, at, s) ==
    LET st == w.state
        r  == editorUpdateRow([size |-> Len(s), rsize |-> 0,
                               text |-> s, render |-> <<>>])
    IN  IF ~w.alive THEN w
        ELSE IF at < 0 \/ at > st.textrows THEN Crash(w)
        ELSE [w EXCEPT !.state.row = Take(st.row, at) \o <<r>> \o Tail0(st.row, at),
                       !.state.textrows = st.textrows + 1,
                       !.state.modified = st.modified + 1]

\* void editorDelRow(int at)
editorDelRow(w, at) ==
    LET st == w.state
    IN  IF ~w.alive THEN w
        ELSE IF at < 0 \/ at >= st.textrows THEN w
        ELSE [w EXCEPT !.state.row = Take(st.row, at) \o Tail0(st.row, at + 1),
                       !.state.textrows = st.textrows - 1,
                       !.state.modified = st.modified + 1]

\* editorRowInsertChar without its state.modified++
editorRowInsertCharUncounted(w, y, at, c) ==
    LET st == w.state
    IN  IF ~w.alive THEN w
        ELSE IF y < 0 \/ y >= st.textrows THEN Crash(w)
        ELSE LET row == st.row[y + 1]
             IN  IF at < 0 \/ at > row.size THEN Crash(w)
                 ELSE [w EXCEPT !.state.row[y + 1] =
                          editorUpdateRow(
                              [row EXCEPT !.size = row.size + 1,
                                          !.text = Take(row.text, at) \o <<ToChar(c)>>
                                                   \o Tail0(row.text, at)])]

\* void editorRowInsertChar(erow* row, int at, int c), row = &state.row[y]
editorRowInsertChar(w, y, at, c) ==
    LET st == w.state
    IN  IF ~w.alive THEN w
        ELSE IF y < 0 \/ y >= st.textrows THEN Crash(w)
        ELSE LET row == st.row[y + 1]
             IN  IF at < 0 \/ at > row.size THEN Crash(w)
                 ELSE LET r == editorUpdateRow(
                                 [row EXCEPT !.size = row.size + 1,
                                             !.text = Take(row.text, at) \o <<ToChar(c)>>
                                                      \o Tail0(row.text, at)])
                      IN  [w EXCEPT !.state.row[y + 1] = r,
                                    !.state.modified = st.modified + 1]

\* void editorRowAppendString(erow* row, char *s, size_t len), row = &state.row[y]
editorRowAppendString(w, y, s) ==
    LET st == w.state
    IN  IF ~w.alive THEN w
        ELSE IF y < 0 \/ y >= st.textrows THEN Crash(w)
        ELSE LET row == st.row[y + 1]
                 r   == editorUpdateRow([row EXCEPT !.size = row.size + Len(s),
                                                    !.text = row.text \o s])
             IN  [w EXCEPT !.state.row[y + 1] = r,
                           !.state.modified = st.modified + 1]

\* editorRowDelChar without state.modified++
editorRowDelCharUncounted(w, y, at) ==
    LET st == w.state
    IN  IF ~w.alive THEN w
        ELSE IF y < 0 \/ y >= st.textrows THEN Crash(w)
        ELSE LET row == st.row[y + 1]
             IN  IF at < 0 \/ at > row.size THEN Crash(w)
                 ELSE [w EXCEPT !.state.row[y + 1] =
                          editorUpdateRow(
                             [row EXCEPT !.size = row.size - 1,
                                         !.text = Take(Take(row.text, at)
                                                       \o Tail0(row.text, at + 1),
                                                       row.size - 1)])]

\* void editorRowDelChar(erow* row, int at), row = &state.row[y]
editorRowDelChar(w, y, at) ==
    LET st == w.state
    IN  IF ~w.alive THEN w
        ELSE IF y < 0 \/ y >= st.textrows THEN Crash(w)
        ELSE LET row == st.row[y + 1]
             IN  IF at < 0 \/ at > row.size THEN Crash(w)
                 ELSE LET r == editorUpdateRow(
                                 [row EXCEPT !.size = row.size - 1,
                                             !.text = Take(Take(row.text, at)
                                                           \o Tail0(row.text, at + 1),
                                                           row.size - 1)])
                      IN  [w EXCEPT !.state.row[y + 1] = r,
                                    !.state.modified = st.modified + 1]

----------------------------------------------------------------------------
(* Undo stack *)

\* erow* cloneErow(const erow* src, int num_rows): one row of the copy
cloneErow(row) ==
    [size |-> row.size, rsize |-> row.rsize,
     text |-> strdup(row.text), render |-> strdup(row.render)]

\* struct editorConfig* cloneState(const struct editorConfig* src)
cloneState(src) ==
    [src EXCEPT !.row = [i \in 1..src.textrows |-> cloneErow(src.row[i])]]

\* editorAddState with snapshots that point at the rows of the live buffer
\* instead of copies: at every push each snapshot shows the live rows
editorAddStateShared(w) ==
    IF ~w.alive THEN w
    ELSE [w EXCEPT !.ur.states =
                       Append([i \in 1..w.ur.size |->
                                 [w.ur.states[i] EXCEPT !.row = w.state.row,
                                                        !.textrows = w.state.textrows]],
                              cloneState(w.state)),
                   !.ur.size = w.ur.size + 1,
                   !.ur.currStateIndex = w.ur.size]

\* void editorAddState()
editorAddState(w) ==
    IF ~w.alive THEN w
    ELSE [w EXCEPT !.ur.states = Append(Take(w.ur.states, w.ur.size),
                                        cloneState(w.state)),
                   !.ur.size = w.ur.size + 1,
                   !.ur.currStateIndex = w.ur.size]

\* void editorSetStatusMessage(const char *fmt, ...)
editorSetStatusMessage(w, msg) ==
    IF ~w.alive THEN w ELSE [w EXCEPT !.state.statusmsg = msg]

----------------------------------------------------------------------------
(* Editor operations *)

\* void editorInsertChar(int c)
editorInsertChar(w, c) ==
    Bind(IF w.state.cy = w.state.textrows
         THEN editorInsertRow(w, w.state.textrows, <<>>) ELSE w,
         LAMBDA w1 :
    Bind(editorRowInsertChar(w1, w1.state.cy, w1.state.cx - w1.state.linenooff, c),
         LAMBDA w2 :
    IF ~w2.alive THEN w2
    ELSE IF c = SPACE \/ w2.state.modified % 3 = 0
         THEN editorAddState([w2 EXCEPT !.state.cx = w2.state.cx + 1])
         ELSE [w2 EXCEPT !.state.cx = w2.state.cx + 1]))

\* SplitRow without the editorUpdateRow(row) that follows the truncation
SplitRowStale(w) ==
    LET st  == w.state
        off == st.cx - st.linenooff
        row == st.row[st.cy + 1]
    IN  IF st.cy < 0 \/ st.cy >= st.textrows THEN Crash(w)
        ELSE IF off < 0 \/ off > row.size THEN Crash(w)
        ELSE Bind(editorInsertRow(w, st.cy + 1, Tail0(row.text, off)),
                  LAMBDA wa :
                    [wa EXCEPT !.state.row[st.cy + 1] =
                        [row EXCEPT !.size = off, !.text = Take(row.text, off)]])

\* the else branch of editorInsertNewLine: the row is split at the cursor
SplitRow(w) ==
    LET st  == w.state
        off == st.cx - st.linenooff
        row == st.row[st.cy + 1]
    IN  IF st.cy < 0 \/ st.cy >= st.textrows THEN Crash(w)
        ELSE IF off < 0 \/ off > row.size THEN Crash(w)
        ELSE Bind(editorInsertRow(w, st.cy + 1, Tail0(row.text, off)),
                  LAMBDA wa :
                    [wa EXCEPT !.state.row[st.cy + 1] =
                        editorUpdateRow([row EXCEPT !.size = off,
                                                    !.text = Take(row.text, off)])])

\* void editorInsertNewLine()
editorInsertNewLine(w) ==
    Bind(IF w.state.cx = w.state.linenooff
         THEN editorInsertRow(w, w.state.cy, <<>>)
         ELSE SplitRow(w),
         LAMBDA w1 :
    IF ~w1.alive THEN w1
    ELSE [w1 EXCEPT !.state.cy = w.state.cy + 1, !.state.cx = w.state.linenooff])

\* the else branch of editorDelChar: the row is joined to the row above it
JoinRow(w) ==
    LET st  == w.state
        row == st.row[st.cy + 1]
    IN  IF st.cy = 0 THEN Crash(w)
        ELSE Bind(editorDelRow(editorRowAppendString(w, st.cy - 1,
                                                     Take(row.text, row.size)),
                               st.cy),
                  LAMBDA wb :
             Bind(calculateDigits(wb.state.textrows) + 1,
                  LAMBDA lno :
                    [wb EXCEPT !.state.linenooff = lno,
                               !.state.cx = wb.state.row[st.cy].size + lno,
                               !.state.cy = st.cy - 1]))

\* the branch of editorDelChar that removes the byte before the cursor
DelBefore(w) ==
    Bind(editorRowDelChar(w, w.state.cy, w.state.cx - w.state.linenooff - 1),
         LAMBDA wa :
    IF ~wa.alive THEN wa ELSE [wa EXCEPT !.state.cx = w.state.cx - 1])

\* void editorDelChar()
editorDelChar(w) ==
    LET st == w.state
    IN  IF st.cy = st.textrows THEN w
        ELSE IF st.cx = st.linenooff /\ st.cy = 0 THEN w
        ELSE IF st.cy < 0 \/ st.cy > st.textrows THEN Crash(w)
        ELSE Bind(IF st.cx > st.linenooff THEN DelBefore(w) ELSE JoinRow(w),
                  LAMBDA w1 :
                    IF ~w1.alive THEN w1
                    ELSE IF w1.state.modified % 3 = 0 THEN editorAddState(w1)
                    ELSE w1)

\* the end of editorMoveCursor: cx is snapped to the end of the new row
SnapCx(s1) ==
    IF s1.cy >= 0 /\ s1.cy < s1.textrows
       /\ s1.cx > s1.row[s1.cy + 1].size + s1.linenooff
    THEN [s1 EXCEPT !.cx = s1.row[s1.cy + 1].size + s1.linenooff] ELSE s1

\* void editorMoveCursor(int key)
editorMoveCursor(w, k) ==
    LET st   == w.state
        has  == st.cy < st.textrows
        size == IF has THEN st.row[st.cy + 1].size ELSE 0
    IN  IF ~w.alive THEN w
        ELSE [w EXCEPT !.state = SnapCx(
           CASE k = ARROW_LEFT ->
                  IF st.cy # 0 /\ st.cx = st.linenooff
                  THEN [st EXCEPT !.cy = st.cy - 1,
                                  !.cx = st.row[st.cy].size + st.linenooff]
                  ELSE IF st.cx > st.linenooff
                       THEN [st EXCEPT !.cx = st.cx - 1] ELSE st
             [] k = ARROW_RIGHT ->
                  IF has /\ st.cx = size + st.linenooff /\ st.cy < st.textrows - 1
                  THEN [st EXCEPT !.cy = st.cy + 1, !.cx = st.linenooff]
                  ELSE IF has /\ st.cx < size + st.linenooff
                       THEN [st EXCEPT !.cx = st.cx + 1] ELSE st
             [] k = ARROW_UP ->
                  IF st.cy # 0 THEN [st EXCEPT !.cy = st.cy - 1] ELSE st
             [] k = ARROW_DOWN ->
                  IF st.cy < st.textrows - 1
                  THEN [st EXCEPT !.cy = st.cy + 1] ELSE st
             [] OTHER -> st)]

----------------------------------------------------------------------------
(* Output: one frame *)

\* the scroll offsets of editorScroll once state.rx is known
ScrollTo(st, rx) ==
    LET ro1 == IF st.cy < st.rowoff THEN st.cy ELSE st.rowoff
        co1 == IF rx < st.coloff + st.linenooff THEN rx - st.linenooff ELSE st.coloff
    IN  [st EXCEPT !.rx = rx,
                   !.rowoff = IF st.cy >= ro1 + ScreenRows
                              THEN (st.cy - ScreenRows) + 1 ELSE ro1,
                   !.coloff = IF rx >= co1 + ScreenCols
                              THEN (rx - ScreenCols) + 1 ELSE co1]

\* void editorScroll()
editorScroll(st, jk) ==
    ScrollTo(st, IF st.cy >= 0 /\ st.cy < st.textrows
                 THEN editorRowCxToRx(st.row[st.cy + 1], st.cx, jk) ELSE 0)

\* void editorDrawRows(struct append_buffer* ab): its only write to the state
\* is the gutter width, set while a text row is drawn
editorDrawRows(st) ==
    IF \E y \in 0..(ScreenRows - 1) : y + st.rowoff < st.textrows
    THEN [st EXCEPT !.linenooff = calculateDigits(st.textrows) + 1]
    ELSE st

\* if(state.cx < state.linenooff && state.rx < state.linenooff) in editorRefreshScreen
FixCursor(s2) ==
    IF s2.cx < s2.linenooff /\ s2.rx < s2.linenooff
    THEN [s2 EXCEPT !.cx = s2.linenooff, !.rx = s2.linenooff]
    ELSE s2

\* void editorRefreshScreen(); not reached once the process has ended
editorRefreshScreen(w, jk) ==
    IF ~w.alive \/ w.exited THEN w
    ELSE IF w.state.textrows = 0
         THEN \* editorDrawRows reads state.row[0].size through a null row array
              Crash([w EXCEPT !.state = editorScroll(w.state, jk)])
         ELSE [w EXCEPT !.state = FixCursor(editorDrawRows(editorScroll(w.state, jk)))]

----------------------------------------------------------------------------
(* File I/O *)

\* ssize_t getline(): the next line of the file with its terminator
RECURSIVE NextLine(_)
NextLine(bytes) ==
    IF bytes = <<>> THEN <<>>
    ELSE IF Head(bytes) = LF THEN <<LF>>
    ELSE <<Head(bytes)>> \o NextLine(Tail(bytes))

\* while(linelen > 0 && (line[linelen-1] == '\n' || line[linelen-1] == '\r')) linelen--
RECURSIVE StripEol(_)
StripEol(line) ==
    IF line # <<>> /\ line[Len(line)] \in {LF, CR}
    THEN StripEol(Take(line, Len(line) - 1)) ELSE line

\* the getline loop of editorOpen
RECURSIVE ReadLines(_, _)
ReadLines(w, bytes) ==
    IF bytes = <<>> THEN w
    ELSE Bind(NextLine(bytes),
              LAMBDA line :
                ReadLines(editorInsertRow(w, w.state.textrows, StripEol(line)),
                          Tail0(bytes, Len(line))))

\* state.modified = 0 in editorOpen
ResetModified(w) == [w EXCEPT !.state.modified = 0]

\* void editorOpen(char *filename)
editorOpen(w, bytes) ==
    editorAddState(ResetModified(
        ReadLines([w EXCEPT !.state.filename = FileName], bytes)))

\* char* editorRowsToString(int* buflen)
RECURSIVE RowsToStringFrom(_, _)
RowsToStringFrom(rows, j) ==
    IF j > Len(rows) THEN <<>>
    ELSE Take(rows[j].text, rows[j].size) \o <<LF>> \o RowsToStringFrom(rows, j + 1)

editorRowsToString(st) == RowsToStringFrom(Take(st.row, st.textrows), 1)

\* Saved without ur.size = 0: the new snapshot lands above the old ones
SavedOnTop(w, buffer) ==
    editorAddState([w EXCEPT !.state.modified = 0,
                             !.state.statusmsg = <<"bytes written to disk", Len(buffer)>>,
                             !.disk = buffer])

\* the success branch of editorSave
Saved(w, buffer) ==
    editorAddState([w EXCEPT !.state.modified = 0,
                             !.state.statusmsg = <<"bytes written to disk", Len(buffer)>>,
                             !.disk = buffer,
                             !.ur.states = Take(w.ur.states, 1),
                             !.ur.size = 0,
                             !.ur.currStateIndex = 0])

\* editorSave with a failure branch that also clears state.modified
editorSaveForgets(w, ok) ==
    IF ~w.alive THEN w
    ELSE IF ok THEN Saved(w, editorRowsToString(w.state))
    ELSE editorSetStatusMessage([w EXCEPT !.state.modified = 0],
                                <<"Can't save! I/O error">>)

\* void editorSave(), from the point where state.filename is set; ok tells
\* whether open, ftruncate and write all succeed
editorSave(w, ok) ==
    IF ~w.alive THEN w
    ELSE IF ok THEN Saved(w, editorRowsToString(w.state))
    ELSE editorSetStatusMessage(w, <<"Can't save! I/O error">>)

----------------------------------------------------------------------------
(* Quit *)

\* void editorQuit()
editorQuit(w) == IF ~w.alive THEN w ELSE [w EXCEPT !.exited = TRUE]

----------------------------------------------------------------------------
(* Undo *)

\* the end of editorUndoState: the stack is cut to n1 snapshots and the
\* snapshot at index i1 becomes the state
Restore(w, i1, n1, jk) ==
    IF i1 >= n1 THEN Crash(w)
    ELSE editorRefreshScreen(
           [w EXCEPT !.ur.currStateIndex = i1,
                     !.ur.size = n1,
                     !.ur.states = Take(w.ur.states, n1),
                     !.state = [cloneState(w.ur.states[i1 + 1])
                                   EXCEPT !.statusmsg = <<"Undo successfull!">>]],
           jk)

\* editorUndoState without the test of state.modified at index 0
editorUndoStateAlways(w, jk) ==
    LET i1 == IF w.ur.currStateIndex > 0 THEN w.ur.currStateIndex - 1
              ELSE w.ur.currStateIndex
    IN  IF ~w.alive THEN w
        ELSE IF i1 < 0
        THEN [w EXCEPT !.ur.currStateIndex = 0,
                       !.state.statusmsg =
                           <<"Current file matches with the file on the disk">>]
        ELSE Restore(w, i1, IF w.ur.size # 1 THEN w.ur.size - 1 ELSE w.ur.size, jk)

\* void editorUndoState()
editorUndoState(w, jk) ==
    LET i1 == IF w.ur.currStateIndex > 0 THEN w.ur.currStateIndex - 1
              ELSE w.ur.currStateIndex
    IN  IF ~w.alive THEN w
        ELSE IF i1 < 0 \/ (i1 = 0 /\ w.state.modified = 0)
        THEN [w EXCEPT !.ur.currStateIndex = 0,
                       !.state.statusmsg =
                           <<"Current file matches with the file on the disk">>]
        ELSE Restore(w, i1, IF w.ur.size # 1 THEN w.ur.size - 1 ELSE w.ur.size, jk)

----------------------------------------------------------------------------
(* Find *)

\* char* strstr(haystack, needle) - haystack: the offset of the first
\* occurrence, -1 for a null result
strstr(h, n) ==
    LET at == {i \in 0..(Len(h) - Len(n)) : SubSeq(h, i + 1, i + Len(n)) = n}
    IN  IF at = {} THEN -1 ELSE CHOOSE i \in at : \A j \in at : i <= j

NoFind == [last_match |-> -1, direction |-> 1,
           saved_cx |-> 0, saved_cy |-> 0, saved_coloff |-> 0, saved_rowoff |-> 0]

\* if(match) in the scan loop: the cursor goes to the match in row c2
Matched(sf, c2, match) ==
    [state |-> [sf.state EXCEPT
                   !.cy = c2,
                   !.cx = editorRowRxToCx(sf.state.row[c2 + 1], match)
                          + sf.state.linenooff,
                   !.rowoff = sf.state.textrows],
     find  |-> [sf.find EXCEPT !.last_match = c2]]

\* current += direction with its wrap at both ends
Advance(current, direction, textrows) ==
    IF current + direction = -1 THEN textrows - 1
    ELSE IF current + direction = textrows THEN 0
    ELSE current + direction

\* the scan loop of editorFindCallback, from its i-th round on
RECURSIVE FindScan(_, _, _, _, _)
FindScan(sf, query, current, direction, i) ==
    IF i >= sf.state.textrows THEN sf
    ELSE Bind(Advance(current, direction, sf.state.textrows),
              LAMBDA c2 :
         Bind(strstr(strdup(sf.state.row[c2 + 1].render), query),
              LAMBDA match :
                IF match # -1 THEN Matched(sf, c2, match)
                ELSE FindScan(sf, query, c2, direction, i + 1)))

\* the statics of editorFindCallback after its key test
FindStatics(f, k) ==
    IF k = ARROW_RIGHT \/ k = ARROW_DOWN
    THEN [f EXCEPT !.direction = 1]
    ELSE IF k = ARROW_LEFT \/ k = ARROW_UP
    THEN [f EXCEPT !.direction = IF f.last_match = -1 THEN 1 ELSE -1]
    ELSE [f EXCEPT !.last_match = -1, !.direction = 1]

\* editorFindCallback with every scan started before row 0, forward
editorFindCallbackFromTop(sf, query, k) ==
    IF k = CR \/ k = ESC
    THEN [sf EXCEPT !.find.last_match = -1, !.find.direction = 1]
    ELSE Bind(FindStatics(sf.find, k),
              LAMBDA f2 :
                FindScan([state |-> sf.state, find |-> f2], query, -1, 1, 0))

\* void editorFindCallback(char* query, int key)
editorFindCallback(sf, query, k) ==
    IF k = CR \/ k = ESC
    THEN [sf EXCEPT !.find.last_match = -1, !.find.direction = 1]
    ELSE Bind(FindStatics(sf.find, k),
              LAMBDA f2 :
                FindScan([state |-> sf.state, find |-> f2],
                         query, f2.last_match, f2.direction, 0))

----------------------------------------------------------------------------
(* Input *)

\* int iscntrl(int c), for the byte values a key can have
iscntrl(c) == c < 32 \/ c = 127

\* one round of the loop of editorPrompt on key c: the new buf and whether
\* the prompt goes on ("more"), returns NULL ("cancel") or returns buf ("accept")
editorPrompt(b, c) ==
    IF c = DEL_KEY \/ c = CTRL_KEY(ChH) \/ c = BACKSPACE
    THEN [buf |-> IF Len(b) # 0 THEN Take(b, Len(b) - 1) ELSE b, ret |-> "more"]
    ELSE IF c = ESC THEN [buf |-> b, ret |-> "cancel"]
    ELSE IF c = CR
    THEN [buf |-> b, ret |-> IF Len(b) # 0 THEN "accept" ELSE "more"]
    ELSE IF c < 128 /\ ~iscntrl(c) THEN [buf |-> Append(b, c), ret |-> "more"]
    ELSE [buf |-> b, ret |-> "more"]

----------------------------------------------------------------------------
(* Initialisation *)

\* the files the editor is started on: argv[1] absent, or the file's bytes
NoFile == <<-1>>
EmptyFile == <<>>
TabFile == <<ChA, TAB, ChA, CR, LF, SPACE, LF, ChA>>
NineFile == <<TAB, LF, LF, LF, LF, LF, LF, LF, LF, LF>>
Files == {NoFile, EmptyFile, TabFile, NineFile}

\* void initEditor()
initEditor ==
    [state |-> [linenooff |-> 0, modified |-> 0, filename |-> NoName,
                cx |-> 0, cy |-> 0, rx |-> 0, rowoff |-> 0, coloff |-> 0,
                textrows |-> 0, row |-> <<>>, statusmsg |-> <<"">>],
     ur    |-> [states |-> <<>>, size |-> 0, currStateIndex |-> 0],
     alive |-> TRUE,
     exited |-> FALSE,
     disk  |-> NoFile]

\* if(state.textrows == 0) in main: the buffer gets its one empty row
FirstRow(w) ==
    IF w.state.textrows = 0
    THEN Bind(editorInsertRow(w, w.state.textrows, <<>>),
              LAMBDA wa :
                editorAddState([wa EXCEPT !.state.modified = wa.state.modified - 1]))
    ELSE w

\* int main(int argc, char *argv[]), up to the first read of a key
main(file, jk) ==
    editorRefreshScreen(
        editorSetStatusMessage(
            FirstRow(IF file = NoFile THEN initEditor
                     ELSE editorOpen([initEditor EXCEPT !.disk = file], file)),
            <<"HELP">>),
        jk)

World == [state |-> state, ur |-> ur, alive |-> TRUE, exited |-> FALSE, disk |-> disk]

\* no function is run on its own while the editor runs
NoCall == [fn |-> "none"]

\* the state in which the first key is read
Started(w, jk) ==
    /\ state = w.state
    /\ ur = w.ur
    /\ disk = w.disk
    /\ mode = "normal"
    /\ buf = <<>>
    /\ find = NoFind
    /\ key = 0
    /\ junk = jk
    /\ nkeys = 0
    /\ call = NoCall

Init == \E file \in Files, jk \in BOOLEAN : Started(main(file, jk), jk)

----------------------------------------------------------------------------
(* The main loop: one key read and dispatched, then the next frame drawn *)

\* what one key leaves behind: the editor's data, and where the next key is read
Commit(w, m, b, f, c) ==
    /\ state' = w.state
    /\ ur' = w.ur
    /\ disk' = w.disk
    /\ mode' = IF ~w.alive THEN "crashed" ELSE IF w.exited THEN "exited" ELSE m
    /\ buf' = b
    /\ find' = f
    /\ key' = c
    /\ nkeys' = nkeys + 1
    /\ junk' = junk
    /\ call' = call

\* case CTRL_KEY('q') without the test of state.modified
QuitRequestUnguarded(w) == editorQuit(w)

\* case CTRL_KEY('q') of editorProcessKeypress
QuitRequest(w) ==
    IF w.state.modified # 0
    THEN editorSetStatusMessage(w, <<"Unsaved file changes!">>)
    ELSE editorQuit(w)

\* the keys of editorProcessKeypress that stay in the main loop; ok is the
\* outcome of the file writes of a save
editorProcessKeypress(w, c, ok) ==
    CASE c = CR -> editorInsertNewLine(w)
      [] c = HOME_KEY \/ c = END_KEY -> w
      [] c = CTRL_KEY(ChQ) -> QuitRequest(w)
      [] c = CTRL_KEY(ChS) -> editorSave(w, ok)
      [] c = BACKSPACE \/ c = CTRL_KEY(ChH) -> editorDelChar(w)
      [] c = DEL_KEY -> editorDelChar(editorMoveCursor(w, ARROW_RIGHT))
      [] c \in {ARROW_UP, ARROW_DOWN, ARROW_LEFT, ARROW_RIGHT} -> editorMoveCursor(w, c)
      [] OTHER -> editorInsertChar(w, c)

Reading == mode = "normal" /\ nkeys < MaxKeys

\* a key that is inserted as it is
KeyChar ==
    /\ Reading
    /\ \E c \in {ChA, SPACE, TAB} :
         Commit(editorRefreshScreen(editorProcessKeypress(World, c, TRUE), junk),
                "normal", <<>>, NoFind, c)

KeyEnter ==
    /\ Reading
    /\ Commit(editorRefreshScreen(editorProcessKeypress(World, CR, TRUE), junk),
              "normal", <<>>, NoFind, CR)

KeyBackspace ==
    /\ Reading
    /\ \E c \in {BACKSPACE, CTRL_KEY(ChH)} :
         Commit(editorRefreshScreen(editorProcessKeypress(World, c, TRUE), junk),
                "normal", <<>>, NoFind, c)

KeyDelete ==
    /\ Reading
    /\ Commit(editorRefreshScreen(editorProcessKeypress(World, DEL_KEY, TRUE), junk),
              "normal", <<>>, NoFind, DEL_KEY)

KeyArrow ==
    /\ Reading
    /\ \E c \in {ARROW_UP, ARROW_DOWN, ARROW_LEFT, ARROW_RIGHT} :
         Commit(editorRefreshScreen(editorProcessKeypress(World, c, TRUE), junk),
                "normal", <<>>, NoFind, c)

KeyHomeEnd ==
    /\ Reading
    /\ \E c \in {HOME_KEY, END_KEY} :
         Commit(editorRefreshScreen(editorProcessKeypress(World, c, TRUE), junk),
                "normal", <<>>, NoFind, c)

KeyPage ==
    /\ Reading
    /\ \E c \in {PAGE_UP, PAGE_DOWN} :
         Commit(editorRefreshScreen(editorProcessKeypress(World, c, TRUE), junk),
                "normal", <<>>, NoFind, c)

\* case CTRL_KEY('q')
KeyQuit ==
    /\ Reading
    /\ Commit(editorRefreshScreen(
                editorProcessKeypress(World, CTRL_KEY(ChQ), TRUE), junk),
              "normal", <<>>, NoFind, CTRL_KEY(ChQ))

\* char* editorPrompt(prompt, NULL) run on the keys typed into it: every
\* round sets the status message, draws a frame and reads one key
RECURSIVE PromptLoop(_, _, _, _, _)
PromptRound(w1, prompt, b, keys, jk, p) ==
    IF p.ret = "more" THEN PromptLoop(w1, prompt, p.buf, Tail(keys), jk)
    ELSE [w |-> editorSetStatusMessage(w1, <<"">>), ret |-> p.ret, buf |-> p.buf]

PromptLoop(w, prompt, b, keys, jk) ==
    Bind(editorRefreshScreen(editorSetStatusMessage(w, <<prompt, b>>), jk),
         LAMBDA w1 :
           IF keys = <<>> \/ ~w1.alive THEN [w |-> w1, ret |-> "more", buf |-> b]
           ELSE PromptRound(w1, prompt, b, keys, jk, editorPrompt(b, Head(keys))))

\* what is typed into the "COMMAND" and the "Save as" prompt
CommandInputs ==
    {<<ESC>>, <<ChU, CR>>, <<ChQ, CR>>, <<ChA, CR>>, <<ChU, ESC>>,
     <<ChQ, BACKSPACE, ChU, CR>>, <<CR, ChU, ChQ, CR>>}
SaveAsInputs ==
    {<<ESC>>, <<ChA, CR>>, <<ChA, BACKSPACE, ESC>>, <<CR, ChA, ChA, CR>>}

\* char* command: what the prompt returned, empty for NULL
Returned(p) == IF p.ret = "accept" THEN p.buf ELSE <<>>

\* the command the "COMMAND" prompt returned, run
Command(p, jk) ==
    IF p.ret # "accept" THEN p.w
    ELSE IF p.buf[1] = ChQ THEN editorQuit(p.w)
    ELSE IF p.buf[1] = ChU THEN editorUndoState(p.w, jk)
    ELSE p.w

\* if(command) { ... } break; and the next frame
Commanded(p) ==
    Commit(editorRefreshScreen(Command(p, junk), junk),
           "normal", Returned(p), NoFind, ESC)

\* case '\x1b': the "COMMAND" prompt, then the command it returns
KeyEscape ==
    /\ Reading
    /\ \E typed \in CommandInputs :
         Commanded(PromptLoop(World, "COMMAND", <<>>, typed, junk))

\* editorSave once the "Save as" prompt has returned
SaveAs(p, ok) ==
    IF p.ret = "accept"
    THEN editorSave([p.w EXCEPT !.state.filename = p.buf], ok)
    ELSE editorSetStatusMessage(p.w, <<"Save aborted">>)

\* case CTRL_KEY('s'): editorSave, which asks for a name when there is none
KeySave ==
    /\ Reading
    /\ \E ok \in BOOLEAN :
         IF state.filename # NoName
         THEN Commit(editorRefreshScreen(
                       editorProcessKeypress(World, CTRL_KEY(ChS), ok), junk),
                     "normal", <<>>, NoFind, CTRL_KEY(ChS))
         ELSE \E typed \in SaveAsInputs :
                Commit(editorRefreshScreen(
                         SaveAs(PromptLoop(World, "Save as", <<>>, typed, junk), ok),
                         junk),
                       "normal", <<>>, NoFind, CTRL_KEY(ChS))

\* case CTRL_KEY('f'): editorFind saves the cursor and opens the "Search" prompt
KeyFind ==
    /\ Reading
    /\ Commit(editorRefreshScreen(
                editorSetStatusMessage(World, <<"Search", <<>>>>), junk),
              "search", <<>>,
              [NoFind EXCEPT !.saved_cx = state.cx, !.saved_cy = state.cy,
                             !.saved_coloff = state.coloff,
                             !.saved_rowoff = state.rowoff],
              CTRL_KEY(ChF))

\* editorFindEnd without the else branch that puts the cursor back
editorFindEndInPlace(p, sf, f) ==
    [sf.state EXCEPT !.statusmsg = IF p.ret = "more" THEN <<"Search", p.buf>>
                                   ELSE <<"">>]

\* the state editorFind leaves when its prompt goes on or has returned; f
\* holds the cursor and viewport it saved
editorFindEnd(p, sf, f) ==
    CASE p.ret = "more" -> [sf.state EXCEPT !.statusmsg = <<"Search", p.buf>>]
      [] p.ret = "cancel" -> [sf.state EXCEPT !.statusmsg = <<"">>,
                                              !.cx = f.saved_cx,
                                              !.cy = f.saved_cy,
                                              !.coloff = f.saved_coloff,
                                              !.rowoff = f.saved_rowoff]
      [] p.ret = "accept" -> [sf.state EXCEPT !.statusmsg = <<"">>]

\* the world in which editorFind's prompt goes on or has returned
FindRound(p, sf, c) ==
    IF p.ret = "more"
    THEN Commit(editorRefreshScreen(
                  [World EXCEPT !.state = editorFindEnd(p, sf, find)], junk),
                "search", p.buf, sf.find, c)
    ELSE Commit(editorRefreshScreen(
                  [World EXCEPT !.state = editorFindEnd(p, sf, find)], junk),
                "normal", <<>>, NoFind, c)

\* the keys typed into the "Search" prompt
SearchKeys ==
    {ChA, SPACE, BACKSPACE, ESC, CR, ARROW_UP, ARROW_DOWN, ARROW_LEFT, ARROW_RIGHT}

\* a key read by editorPrompt for the "Search" prompt: editorFindCallback runs
\* on every key; on return editorFind keeps or restores the cursor
SearchRound ==
    \E c \in SearchKeys :
        /\ Len(editorPrompt(buf, c).buf) <= MaxBuf
        /\ FindRound(editorPrompt(buf, c),
                     editorFindCallback([state |-> state, find |-> find],
                                        editorPrompt(buf, c).buf, c),
                     c)

SearchKey == mode = "search" /\ nkeys < MaxKeys /\ SearchRound

Next ==
    \/ KeyChar
    \/ KeyEnter
    \/ KeyBackspace
    \/ KeyDelete
    \/ KeyArrow
    \/ KeyHomeEnd
    \/ KeyPage
    \/ KeyQuit
    \/ KeySave
    \/ KeyFind
    \/ KeyEscape
    \/ SearchKey

Spec == Init /\ [][Next]_vars

----------------------------------------------------------------------------
(* A search opened with the first key *)

\* the state in which the "Search" prompt reads its first key: w0 is the editor
\* as main leaves it, w1 the editor after the first frame of the prompt
Finding(w0, w1, jk) ==
    /\ state = w1.state
    /\ ur = w1.ur
    /\ disk = w1.disk
    /\ mode = "search"
    /\ buf = <<>>
    /\ find = [NoFind EXCEPT !.saved_cx = w0.state.cx, !.saved_cy = w0.state.cy,
                             !.saved_coloff = w0.state.coloff,
                             !.saved_rowoff = w0.state.rowoff]
    /\ key = CTRL_KEY(ChF)
    /\ junk = jk
    /\ nkeys = 1
    /\ call = NoCall

\* Ctrl-F was the first key
FindOpened(w0, jk) ==
    Finding(w0, editorRefreshScreen(
                    editorSetStatusMessage(w0, <<"Search", <<>>>>), jk), jk)

InitFind == \E file \in Files, jk \in BOOLEAN : FindOpened(main(file, jk), jk)

FindKey == mode = "search" /\ nkeys < MaxFindKeys /\ SearchRound

SpecFind == InitFind /\ [][FindKey]_vars

----------------------------------------------------------------------------
(* The column conversions run on a row of their own *)

\* the editor is not running: its data is as initEditor leaves it
Idle ==
    /\ state = initEditor.state
    /\ ur = initEditor.ur
    /\ disk = NoFile
    /\ mode = "off"
    /\ buf = <<>>
    /\ find = NoFind
    /\ key = 0
    /\ nkeys = 0

\* the strings of at most n bytes over an alphabet
Strings(alphabet, n) == UNION {[1..k -> alphabet] : k \in 0..n}

\* the row editorInsertRow makes of the bytes s
NewRow(s) ==
    editorUpdateRow([size |-> Len(s), rsize |-> 0, text |-> s, render |-> <<>>])

RowBytes == {ChA, ChB, TAB}

\* a row and a character column in it; nothing is converted yet
InitRow ==
    /\ Idle
    /\ junk \in BOOLEAN
    /\ \E s \in Strings(RowBytes, MaxLen) :
         \E cx \in 0..Len(s) :
           call = [fn |-> "row", row |-> NewRow(s), cx |-> cx, rx |-> -1, back |-> -1]

\* rx = editorRowCxToRx(row, cx)
CallCxToRx ==
    /\ call.fn = "row" /\ call.rx = -1
    /\ call' = [call EXCEPT !.rx = editorRowCxToRx(call.row, call.cx, junk)]
    /\ UNCHANGED <<state, ur, mode, buf, find, key, disk, junk, nkeys>>

\* back = editorRowRxToCx(row, rx)
CallRxToCx ==
    /\ call.fn = "row" /\ call.rx # -1 /\ call.back = -1
    /\ call' = [call EXCEPT !.back = editorRowRxToCx(call.row, call.rx)]
    /\ UNCHANGED <<state, ur, mode, buf, find, key, disk, junk, nkeys>>

NextRow == CallCxToRx \/ CallRxToCx

SpecRow == InitRow /\ [][NextRow]_vars

----------------------------------------------------------------------------
(* The key decoder run on its own *)

\* read() returned without a byte: the 100 ms of VTIME passed
Timeout == -1000

\* the values `char c` can hold after a read: the bytes of the escape
\* sequences, the bytes next to the digits, a letter, and a byte above 127 as
\* a build with signed and one with unsigned char holds it
TtyBytes ==
    {ESC, LBRACKET, UpO, TILDE, UpA, UpB, UpC, UpD, UpF, UpH, ChA, 233 - 256, 233}
    \cup ((Ch0 - 1)..(Ch9 + 1))
Reads == TtyBytes \cup {Timeout}

\* switch(seq[1]) without case '7' and case '8'
DigitKeyShort(d) ==
    CASE d = Ch0 + 1 -> HOME_KEY
      [] d = Ch0 + 3 -> DEL_KEY
      [] d = Ch0 + 4 -> END_KEY
      [] d = Ch0 + 5 -> PAGE_UP
      [] d = Ch0 + 6 -> PAGE_DOWN
      [] OTHER -> ESC

\* switch(seq[1]) under if(seq[2] == '~'); no case falls to return '\x1b'
DigitKey(d) ==
    CASE d = Ch0 + 1 -> HOME_KEY
      [] d = Ch0 + 3 -> DEL_KEY
      [] d = Ch0 + 4 -> END_KEY
      [] d = Ch0 + 5 -> PAGE_UP
      [] d = Ch0 + 6 -> PAGE_DOWN
      [] d = Ch0 + 7 -> HOME_KEY
      [] d = Ch0 + 8 -> END_KEY
      [] OTHER -> ESC

\* switch(seq[1]) after ESC [
LetterKey(l) ==
    CASE l = UpA -> ARROW_UP
      [] l = UpB -> ARROW_DOWN
      [] l = UpC -> ARROW_RIGHT
      [] l = UpD -> ARROW_LEFT
      [] l = UpH -> HOME_KEY
      [] l = UpF -> END_KEY
      [] OTHER -> ESC

\* switch(seq[1]) after ESC O
OKey(l) ==
    CASE l = UpH -> HOME_KEY
      [] l = UpF -> END_KEY
      [] OTHER -> ESC

\* seq[1] >= '0' && seq[1] <= '9'
IsDigit(b) == b >= Ch0 /\ b <= Ch9

\* what is returned after seq[0] and seq[1] when no third byte is read
TwoByteKey(s0, s1) ==
    IF s0 = LBRACKET THEN LetterKey(s1)
    ELSE IF s0 = UpO THEN OKey(s1)
    ELSE ESC

\* Seq2Key with a read that timed out taken for the closing ~
Seq2KeyEager(d, r) == IF r = Timeout \/ r = TILDE THEN DigitKey(d) ELSE ESC

\* what is returned after ESC [ digit and the read r of seq[2]
Seq2Key(d, r) ==
    IF r = Timeout THEN ESC
    ELSE IF r = TILDE THEN DigitKey(d)
    ELSE ESC

\* editorReadKey is entered: nothing is read yet
InitKeys ==
    /\ Idle
    /\ junk = FALSE
    /\ call = [fn |-> "key", pc |-> "c", c |-> 0, seq |-> <<>>, timedout |-> FALSE]

\* return k, with the bytes of seq read so far
Return(k, q, t) ==
    /\ key' = k
    /\ call' = [call EXCEPT !.pc = "done", !.seq = q, !.timedout = t]

\* on to the next read
Goto(pc, q) ==
    /\ key' = key
    /\ call' = [call EXCEPT !.pc = pc, !.seq = q]

\* while((nread = read(STDIN_FILENO, &c, 1)) != 1), then the test of c
ReadC ==
    /\ call.fn = "key" /\ call.pc = "c"
    /\ \E r \in Reads :
         IF r = Timeout THEN key' = key /\ call' = call
         ELSE IF r = ESC
              THEN key' = key /\ call' = [call EXCEPT !.c = r, !.pc = "seq0"]
              ELSE key' = r /\ call' = [call EXCEPT !.c = r, !.pc = "done"]
    /\ UNCHANGED <<state, ur, mode, buf, find, disk, junk, nkeys>>

\* if(read(STDIN_FILENO, &seq[0], 1) != 1) return '\x1b'
ReadSeq0 ==
    /\ call.fn = "key" /\ call.pc = "seq0"
    /\ \E r \in Reads :
         IF r = Timeout THEN Return(ESC, call.seq, TRUE)
         ELSE Goto("seq1", <<r>>)
    /\ UNCHANGED <<state, ur, mode, buf, find, disk, junk, nkeys>>

\* if(read(STDIN_FILENO, &seq[1], 1) != 1) return '\x1b', then the tests of
\* seq[0] and seq[1]
ReadSeq1 ==
    /\ call.fn = "key" /\ call.pc = "seq1"
    /\ \E r \in Reads :
         IF r = Timeout THEN Return(ESC, call.seq, TRUE)
         ELSE IF call.seq[1] = LBRACKET /\ IsDigit(r)
              THEN Goto("seq2", Append(call.seq, r))
              ELSE Return(TwoByteKey(call.seq[1], r), Append(call.seq, r), FALSE)
    /\ UNCHANGED <<state, ur, mode, buf, find, disk, junk, nkeys>>

\* if(read(STDIN_FILENO, &seq[2], 1) != 1) return '\x1b', then the test of seq[2]
ReadSeq2 ==
    /\ call.fn = "key" /\ call.pc = "seq2"
    /\ \E r \in Reads :
         Return(Seq2Key(call.seq[2], r),
                IF r = Timeout THEN call.seq ELSE Append(call.seq, r),
                r = Timeout)
    /\ UNCHANGED <<state, ur, mode, buf, find, disk, junk, nkeys>>

NextKeys == ReadC \/ ReadSeq0 \/ ReadSeq1 \/ ReadSeq2

SpecKeys == InitKeys /\ [][NextKeys]_vars

----------------------------------------------------------------------------
(* Properties *)

\* the process waits for a key, the last frame drawn
Running == mode \in {"normal", "search"}

\* the text of every row of a buffer
Rows(st) == [i \in 1..st.textrows |-> Take(st.row[i].text, st.row[i].size)]

\* the number of spaces a tab at column col stands for
TabWidth(col) == YETI_TAB_STOP - (col % YETI_TAB_STOP)

\* text with every tab replaced by spaces up to the next multiple of 8 columns
RECURSIVE Expand(_, _)
Expand(text, col) ==
    IF text = <<>> THEN <<>>
    ELSE IF Head(text) = TAB
         THEN [i \in 1..TabWidth(col) |-> SPACE]
              \o Expand(Tail(text), col + TabWidth(col))
         ELSE <<Head(text)>> \o Expand(Tail(text), col + 1)

\* C1: in every state every row of the live buffer has render equal to its
\* text with each tab expanded to the next multiple of 8 columns and every
\* other byte copied, and rsize equal to the length of render.
C1_RenderInSync ==
    \A i \in 1..state.textrows :
        /\ state.row[i].render = Expand(Take(state.row[i].text, state.row[i].size), 0)
        /\ state.row[i].rsize = Len(state.row[i].render)

\* C1 witness: a row holding a tab that was split by Enter behind the tab, its
\* first half re-rendered to one full tab stop
C1_Witness ==
    /\ Running /\ key = CR
    /\ state.cy > 0
    /\ state.row[state.cy].size >= 2
    /\ state.row[state.cy].text[state.row[state.cy].size] = TAB
    /\ state.row[state.cy].rsize = YETI_TAB_STOP
    /\ state.row[state.cy + 1].size > 0

\* C2: in every state reached from any start (no file, a file with lines, an
\* empty file) by any keys, the live buffer has at least one row.
C2_AtLeastOneRow == state.textrows >= 1

\* the width of the line-number gutter for a buffer
gutterWidth(st) == calculateDigits(st.textrows) + 1

\* C3: after every key and the frame drawn after it, the cursor column lies
\* between the gutter width and the gutter width plus the size of row cy.
C3_CursorInRow ==
    Running =>
        /\ state.cy < state.textrows
        /\ gutterWidth(state) <= state.cx
        /\ state.cx <= gutterWidth(state) + state.row[state.cy + 1].size
\* the messages of editorUndoState and of the Ctrl-Q guard
MatchesDisk == <<"Current file matches with the file on the disk">>
Unsaved == <<"Unsaved file changes!">>

\* a step of the main loop in which the "COMMAND" prompt returned u...: undo ran
UndoStep == mode = "normal" /\ key' = ESC /\ buf' # <<>> /\ buf'[1] = ChU

\* a step of the main loop in which the "COMMAND" prompt returned q...
ForceQuitStep == mode = "normal" /\ key' = ESC /\ buf' # <<>> /\ buf'[1] = ChQ

\* a step that leaves rows, cursor, modified counter and undo stack as they were
NothingChanged ==
    /\ Rows(state') = Rows(state)
    /\ state'.cx = state.cx /\ state'.cy = state.cy
    /\ state'.modified = state.modified
    /\ ur' = ur

\* C4: repeated undo converges: the process survives every undo; an undo at
\* an index above 0 lowers the index by one; an undo at index 0 with unsaved
\* changes stays at index 0 and leaves no unsaved change; and an undo at index
\* 0 without unsaved changes changes nothing and reports that the file
\* matches the disk.
C4_UndoConverges ==
    [][UndoStep =>
        /\ mode' # "crashed"
        /\ (ur.currStateIndex > 0 => ur'.currStateIndex = ur.currStateIndex - 1)
        /\ (ur.currStateIndex = 0 /\ state.modified # 0 =>
                ur'.currStateIndex = 0 /\ state'.modified = 0)
        /\ (ur.currStateIndex = 0 /\ state.modified = 0 =>
                NothingChanged /\ state'.statusmsg = MatchesDisk)]_vars

\* the lines, cursor, filename and modified counter of a buffer: what editorSave
\* copies and the frame drawn after it leaves alone (the frame recomputes rx,
\* the gutter width and the scroll offsets)
Content(st) ==
    [row |-> st.row, textrows |-> st.textrows, cx |-> st.cx, cy |-> st.cy,
     filename |-> st.filename, modified |-> st.modified]

\* the frame after a successful save
SavedNow ==
    /\ mode = "normal" /\ key = CTRL_KEY(ChS)
    /\ state.statusmsg[1] = "bytes written to disk"

\* C5: right after a successful save the undo stack holds exactly one
\* snapshot, equal to the live state, at current index 0; and an undo issued
\* next changes no row content.
C5_SaveResetsHistory ==
    [][/\ (SavedNow' => /\ ur'.size = 1 /\ Len(ur'.states) = 1
                        /\ ur'.currStateIndex = 0
                        /\ Content(ur'.states[1]) = Content(state'))
       /\ (SavedNow /\ UndoStep => Rows(state') = Rows(state))]_vars

\* C5 witness: a save after two edits, the second of which had pushed a snapshot
C5_Witness ==
    /\ SavedNow /\ nkeys = 3
    /\ state.cx = gutterWidth(state) + 2
    /\ state.row[1].text[2] = SPACE
    /\ ur.size = 1

\* C6 as stated: an undo at index 0 changes nothing and reports that the file
\* matches the disk, whatever the modified counter is.
C6_UndoAtZeroNoOp ==
    [][UndoStep /\ ur.currStateIndex = 0 =>
        NothingChanged /\ state'.statusmsg = MatchesDisk]_vars

\* C6 amended: an undo at index 0 while the modified counter is 0 changes
\* nothing and reports that the file matches the disk.
C6_UndoAtZeroClean ==
    [][UndoStep /\ ur.currStateIndex = 0 /\ state.modified = 0 =>
        NothingChanged /\ state'.statusmsg = MatchesDisk /\ mode' = "normal"]_vars

\* C6 witness: an undo answered with the message while the stack holds only
\* the snapshot of a file that was opened
C6_Witness ==
    /\ mode = "normal" /\ key = ESC /\ buf = <<ChU>>
    /\ state.statusmsg = MatchesDisk
    /\ ur.size = 1 /\ ur.currStateIndex = 0
    /\ state.textrows = 3

\* the cursor of a buffer in text coordinates, and its viewport
TextCursor(st) == <<st.cy, st.cx - st.linenooff>>
Viewport(st) == <<st.rowoff, st.coloff>>

\* C7: an undo at index i > 0 leaves the index at i-1, the stack holding
\* exactly the snapshots 0..i-1, and the live rows, cursor (row and text
\* column), viewport and modified counter equal to those of snapshot i-1.
C7_UndoRestores ==
    [][UndoStep /\ ur.currStateIndex > 0 =>
        /\ ur'.currStateIndex = ur.currStateIndex - 1
        /\ ur'.size = ur.currStateIndex
        /\ ur'.states = Take(ur.states, ur.currStateIndex)
        /\ Rows(state') = Rows(ur.states[ur.currStateIndex])
        /\ TextCursor(state') = TextCursor(ur.states[ur.currStateIndex])
        /\ Viewport(state') = Viewport(ur.states[ur.currStateIndex])
        /\ state'.modified = ur.states[ur.currStateIndex].modified]_vars
\* the keys of the main loop by what editorProcessKeypress does with them
ArrowKeys == {ARROW_LEFT, ARROW_RIGHT, ARROW_UP, ARROW_DOWN}
DeleteKeys == {BACKSPACE, CTRL_KEY(ChH), DEL_KEY}

C9_QuitGuard ==
    [][/\ (mode = "normal" /\ key' = CTRL_KEY(ChQ) =>
              /\ (mode' = "exited") <=> (state.modified = 0)
              /\ (state.modified # 0 =>
                    /\ mode' = "normal"
                    /\ NothingChanged
                    /\ state'.statusmsg = Unsaved
                    /\ disk' = disk))
       /\ (ForceQuitStep => mode' = "exited")]_vars

\* C9 witness: Ctrl-Q refused after an edit
C9_Witness ==
    /\ mode = "normal" /\ key = CTRL_KEY(ChQ)
    /\ state.modified # 0
    /\ state.statusmsg = Unsaved

\* C10: in the main loop the arrow keys, Home, End, PageUp and PageDown leave
\* the text of every row, the row count, the modified counter and the undo
\* stack as they were.
C10_MovementKeepsBuffer ==
    [][mode = "normal"
       /\ key' \in ArrowKeys \cup {HOME_KEY, END_KEY, PAGE_UP, PAGE_DOWN} =>
          /\ Rows(state') = Rows(state)
          /\ state'.textrows = state.textrows
          /\ state'.modified = state.modified
          /\ ur' = ur]_vars

\* C11: for every row over tabs and plain bytes and every character column
\* cx with 0 <= cx < size that holds no tab, converting cx to its render
\* column and that render column back gives cx again.
C11_RoundTrip ==
    (/\ call.fn = "row" /\ call.back # -1
     /\ call.cx < call.row.size
     /\ call.row.text[call.cx + 1] # TAB)
    => call.back = call.cx

\* C11 witness: the column of a plain byte behind a tab, converted to render
\* column 8 and back
C11_Witness ==
    /\ call.fn = "row" /\ call.back # -1
    /\ call.row.text = <<TAB, ChA>>
    /\ call.cx = 1 /\ call.rx = YETI_TAB_STOP /\ call.back = 1

\* C12: the render column of character column cx is the length of the first
\* cx bytes of the row with their tabs expanded; for the row a<TAB>b the
\* render is a, seven spaces, b (9 bytes), column 1 maps to 1 and column 2 to 8.
C12_CxToRxIsRenderWidth ==
    (call.fn = "row" /\ call.rx # -1) =>
        /\ call.rx = Len(Expand(Take(call.row.text, call.cx), 0))
        /\ (call.row.text = <<ChA, TAB, ChB>> =>
               /\ call.row.render = <<ChA, SPACE, SPACE, SPACE, SPACE,
                                      SPACE, SPACE, SPACE, ChB>>
               /\ call.row.rsize = 9
               /\ (call.cx = 1 => call.rx = 1)
               /\ (call.cx = 2 => call.rx = 8))

\* C12 witness: column 2 of the row a<TAB>b converted
C12_Witness ==
    /\ call.fn = "row"
    /\ call.row.text = <<ChA, TAB, ChB>>
    /\ call.cx = 2 /\ call.rx = 8

\* a key of the "Search" prompt on which editorFindCallback scans the rows
ScanStep == mode = "search" /\ key' \notin {CR, ESC}

\* the row a scan starts from (-1: in front of row 0) and its direction
ScanStart == IF key' \in ArrowKeys THEN find.last_match ELSE -1
ScanDir == IF key' \in {ARROW_LEFT, ARROW_UP} /\ ScanStart # -1 THEN -1 ELSE 1

\* the k-th row in the circular order of a scan
Visit(k) == (ScanStart + k * ScanDir) % state.textrows

\* the string q occurs in the string h
Contains(h, q) ==
    \E i \in 0..(Len(h) - Len(q)) : SubSeq(h, i + 1, i + Len(q)) = q

\* the positions in that order of the rows whose render holds the query
Hits == {k \in 1..state.textrows : Contains(state.row[Visit(k) + 1].render, buf')}

\* the first row of the scan that holds the query
FirstHit == Visit(CHOOSE k \in Hits : \A j \in Hits : k <= j)

\* rows that render as a....a, a blank, a: the query a is in the first and
\* the third only
TwoOfThree ==
    /\ state.textrows = 3 /\ buf' = <<ChA>>
    /\ Contains(state.row[1].render, <<ChA>>)
    /\ ~Contains(state.row[2].render, <<ChA>>)
    /\ Contains(state.row[3].render, <<ChA>>)

\* C13: on a search key the rows are taken in circular order from the row
\* after the last match in the current direction (from row 0 forward if there
\* is none), every row once, and the first one whose render holds the query
\* becomes the cursor row and the last match; with matches in rows 0 and 2 of
\* three and the last match in row 0 a forward step selects row 2, and the
\* next forward step row 0.
C13_ScanOrder ==
    [][ScanStep =>
        /\ (Hits # {} => state'.cy = FirstHit /\ find'.last_match = FirstHit)
        /\ (Hits = {} => state'.cy = state.cy /\ find'.last_match = ScanStart)
        /\ (TwoOfThree /\ key' \in {ARROW_RIGHT, ARROW_DOWN} =>
               /\ (find.last_match = 0 => state'.cy = 2)
               /\ (find.last_match = 2 => state'.cy = 0))]_vars

\* C13 witness: the query a, found in row 0, then forward in row 2, then
\* forward again in row 0
C13_Witness ==
    /\ mode = "search" /\ nkeys = 4 /\ buf = <<ChA>>
    /\ key = ARROW_DOWN
    /\ state.textrows = 3
    /\ find.last_match = 0 /\ state.cy = 0

\* the cursor and viewport editorFind saved
SavedPlace(f) == <<f.saved_cx, f.saved_cy, f.saved_rowoff, f.saved_coloff>>

\* cx, cy, rowoff and coloff of a buffer
Place(st) == <<st.cx, st.cy, st.rowoff, st.coloff>>

\* the state editorFind would leave if the key read next were Escape
Escaped ==
    editorFindEnd(editorPrompt(buf, ESC),
                  editorFindCallback([state |-> state, find |-> find], buf, ESC),
                  find)

\* C14: editorFind saves cx, cy, rowoff and coloff as they are when the search
\* is entered and keeps what it saved through every key of the search; on
\* Escape it leaves cx, cy, rowoff and coloff equal to the saved values,
\* whatever matches moved them, and the cursor is there after the next frame;
\* on Enter the cursor stays where the last match put it.
C14_EscapeRestores ==
    [][/\ (mode = "normal" /\ mode' = "search" => SavedPlace(find') = Place(state))
       /\ (mode = "search" /\ mode' = "search" => SavedPlace(find') = SavedPlace(find))
       /\ (mode = "search" => Place(Escaped) = SavedPlace(find))
       /\ (mode = "search" /\ key' = ESC =>
              /\ mode' = "normal"
              /\ state'.cx = find.saved_cx /\ state'.cy = find.saved_cy)
       /\ (mode = "search" /\ key' = CR /\ buf # <<>> =>
              /\ mode' = "normal"
              /\ state'.cx = state.cx /\ state'.cy = state.cy)]_vars

\* C14 witness: a search for a blank ended with Enter: the cursor is on the
\* blank that the tab of the first row renders as, and nothing was edited
C14_Witness ==
    /\ mode = "normal" /\ key = CR /\ nkeys = 3
    /\ state.modified = 0
    /\ state.cy = 0 /\ state.cx = gutterWidth(state) + 1
    /\ state.row[1].text[2] = TAB

\* the bytes of a file with every line terminator \r\n replaced by \n
RECURSIVE Normalized(_)
Normalized(bytes) ==
    IF bytes = <<>> THEN <<>>
    ELSE IF Len(bytes) >= 2 /\ bytes[1] = CR /\ bytes[2] = LF
         THEN <<LF>> \o Normalized(Tail0(bytes, 2))
         ELSE <<Head(bytes)>> \o Normalized(Tail(bytes))

\* C15: a save that is the first key after a file was opened writes the bytes
\* of the file as it was, with every line terminator normalized to one \n.
C15_OpenSaveRoundTrip ==
    [][nkeys = 0 /\ disk # NoFile /\ SavedNow' => disk' = Normalized(disk)]_vars

\* the message of editorSave when open, ftruncate or write failed
SaveFailed == <<"Can't save! I/O error">>

\* C16: a save that fails with an I/O error leaves the text of every row, the
\* modified counter and the undo stack (snapshots and current index) as they
\* were, sets the error message, and the editor reads the next key.
C16_FailedSaveKeepsBuffer ==
    [][mode = "normal" /\ key' = CTRL_KEY(ChS) /\ state'.statusmsg = SaveFailed =>
          /\ Rows(state') = Rows(state)
          /\ state'.modified = state.modified
          /\ ur' = ur
          /\ mode' = "normal"]_vars

\* C16 witness: a save failed after two edits; the edits still count as unsaved
C16_Witness ==
    /\ mode = "normal" /\ key = CTRL_KEY(ChS) /\ nkeys = 3
    /\ state.statusmsg = SaveFailed
    /\ state.modified = 2

\* the keys of the sequences ESC [ d ~, ESC [ letter and ESC O letter
TildeKeys ==
    (Ch0 + 1 :> HOME_KEY) @@ (Ch0 + 7 :> HOME_KEY) @@ (Ch0 + 3 :> DEL_KEY)
    @@ (Ch0 + 4 :> END_KEY) @@ (Ch0 + 8 :> END_KEY)
    @@ (Ch0 + 5 :> PAGE_UP) @@ (Ch0 + 6 :> PAGE_DOWN)
BracketKeys ==
    (UpA :> ARROW_UP) @@ (UpB :> ARROW_DOWN) @@ (UpC :> ARROW_RIGHT)
    @@ (UpD :> ARROW_LEFT) @@ (UpH :> HOME_KEY) @@ (UpF :> END_KEY)
OKeys == (UpH :> HOME_KEY) @@ (UpF :> END_KEY)

\* the key that the byte c followed by the bytes q stands for
KeyOf(c, q) ==
    IF c # ESC THEN c
    ELSE IF Len(q) = 3 /\ q[1] = LBRACKET /\ q[3] = TILDE /\ q[2] \in DOMAIN TildeKeys
         THEN TildeKeys[q[2]]
    ELSE IF Len(q) = 2 /\ q[1] = LBRACKET /\ q[2] \in DOMAIN BracketKeys
         THEN BracketKeys[q[2]]
    ELSE IF Len(q) = 2 /\ q[1] = UpO /\ q[2] \in DOMAIN OKeys
         THEN OKeys[q[2]]
    ELSE ESC

\* editorReadKey has returned
Decoded == call.fn = "key" /\ call.pc = "done"

\* C17: the decoder returns Home for ESC [ 1 ~ and ESC [ 7 ~, Delete for
\* ESC [ 3 ~, End for ESC [ 4 ~ and ESC [ 8 ~, PageUp for ESC [ 5 ~, PageDown
\* for ESC [ 6 ~, Up, Down, Right, Left, Home, End for ESC [ A, B, C, D, H, F,
\* Home and End for ESC O H and ESC O F, the escape key for everything else
\* that begins with ESC, and every other byte as itself.
C17_Decoding == Decoded => key = KeyOf(call.c, call.seq)

\* C17 witness: ESC [ 7 ~ read and returned as Home
C17_Witness ==
    /\ Decoded /\ call.c = ESC
    /\ call.seq = <<LBRACKET, Ch0 + 7, TILDE>>
    /\ key = HOME_KEY

\* a read that follows the escape byte
FollowUp == call.fn = "key" /\ call.pc \in {"seq0", "seq1", "seq2"}

\* C18: when a read after the escape byte times out the decoder returns the
\* escape key; and every read after the escape byte either is the last one or
\* adds a byte to the at most three bytes read after the escape byte.
C18_TimeoutIsEscape ==
    [][/\ (Decoded' /\ call'.timedout => key' = ESC /\ call'.c = ESC)
       /\ (FollowUp => Decoded' \/ Len(call'.seq) = Len(call.seq) + 1)
       /\ (call'.fn = "key" => Len(call'.seq) <= 3)]_vars

\* C18 witness: ESC [ 5 read, then the read of the closing byte timed out
C18_Witness ==
    /\ Decoded /\ call.timedout
    /\ call.seq = <<LBRACKET, Ch0 + 5>>
    /\ key = ESC

\* the keys of the main loop that run editorInsertChar, editorInsertNewLine
\* or editorDelChar
EditKeys == {ChA, SPACE, TAB, CR, PAGE_UP, PAGE_DOWN} \cup DeleteKeys

\* C19: an edit of the live buffer (a character inserted, a character
\* deleted, a line broken) leaves every snapshot that is on the undo stack as
\* it was, rows, cursor and modified counter included; this holds after
\* pushes and after an undo has restored a snapshot.
C19_SnapshotsIndependent ==
    [][mode = "normal" /\ key' \in EditKeys =>
          /\ ur'.size >= ur.size
          /\ \A i \in 1..ur.size : ur'.states[i] = ur.states[i]]_vars

\* C19 witness: a blank was typed (a push), undone, and a letter typed into
\* the restored row: the snapshot that was restored still holds the empty row
C19_Witness ==
    /\ mode = "normal" /\ key = ChA /\ nkeys = 3
    /\ state.statusmsg = <<"Undo successfull!">>
    /\ ur.size = 1
    /\ Rows(state) = <<(<<ChA>>)>>
    /\ Rows(ur.states[1]) = <<(<<>>)>>

\* the step pushed a snapshot: one more on the stack, the current index on
\* it, and it holds the rows and the counter of the live buffer
Pushed ==
    /\ ur'.size = ur.size + 1
    /\ ur'.currStateIndex = ur'.size - 1
    /\ Rows(ur'.states[ur'.size]) = Rows(state')
    /\ ur'.states[ur'.size].modified = state'.modified

\* C20: a snapshot is pushed when a blank is inserted, when a character
\* insertion, a deletion or a line break leaves the modified counter a
\* multiple of 3, and when a save succeeds; the push appends a copy of the
\* live state and makes it the current one.
C20_PushTriggers ==
    [][/\ (/\ mode = "normal" /\ mode' # "crashed"
           /\ key' \in EditKeys /\ state'.modified # state.modified
           /\ (key' = SPACE \/ state'.modified % 3 = 0)
           => Pushed)
       /\ (SavedNow' =>
              /\ ur'.currStateIndex = ur'.size - 1
              /\ Rows(ur'.states[ur'.size]) = Rows(state'))]_vars

\* the keys editorProcessKeypress handles without a prompt
PlainKeys == EditKeys \cup ArrowKeys \cup {HOME_KEY, END_KEY}

\* the buffer as the scroll step of the frame after key c leaves it: the
\* handler of the key has run, editorScroll has run, the rows are not yet drawn
AfterScroll(c) == editorScroll(editorProcessKeypress(World, c, TRUE).state, junk)

\* the cursor of a buffer lies inside its window, right of the gutter
InWindow(st) ==
    /\ st.rowoff >= 0 /\ st.coloff >= 0
    /\ st.rowoff <= st.cy /\ st.cy < st.rowoff + ScreenRows
    /\ st.coloff + st.linenooff <= st.rx /\ st.rx < st.coloff + ScreenCols

\* C21: after the scroll step of the frame that follows a key of the main
\* loop the cursor lies inside the visible window: rowoff <= cy < rowoff +
\* screenRows and coloff + gutter width <= rx < coloff + screenCols, with
\* rowoff >= 0 and coloff >= 0.
C21_CursorInWindow ==
    [][mode = "normal" /\ key' \in PlainKeys /\ mode' # "crashed" =>
        InWindow(AfterScroll(key'))]_vars

\* a Backspace of the main loop with the cursor at the start of a row below
\* the first one: editorDelChar takes its join branch
JoinStep ==
    /\ mode = "normal" /\ key' \in {BACKSPACE, CTRL_KEY(ChH)}
    /\ state.cy > 0 /\ state.cx = state.linenooff
    /\ mode' # "crashed"

\* the rows of a buffer once row y (counted from 0) is joined to the row above it
Joined(rows, y) ==
    [i \in 1..(Len(rows) - 1) |->
        IF i < y THEN rows[i]
        ELSE IF i = y THEN rows[y] \o rows[y + 1]
        ELSE rows[i + 1]]

\* C22: a Backspace with the cursor at the start of a row below the first
\* appends the text of that row to the row above it and removes the row, the
\* gutter width is the one of the new row count, and the cursor ends on the
\* row above at the join point: at the character offset that was the length
\* of the row above before the join.
C22_JoinAtJoinPoint ==
    [][JoinStep =>
        /\ Rows(state') = Joined(Rows(state), state.cy)
        /\ state'.linenooff = gutterWidth(state')
        /\ state'.cy = state.cy - 1
        /\ state'.cx - state'.linenooff = state.row[state.cy].size]_vars

\* a Delete of the main loop with the cursor on the text of a row
DeleteStep ==
    /\ mode = "normal" /\ key' = DEL_KEY
    /\ state.cx >= state.linenooff
    /\ mode' # "crashed"

\* the rows of a buffer with the character at offset off of row y removed
\* (rows counted from 0)
Without(rows, y, off) ==
    [rows EXCEPT ![y + 1] = Take(rows[y + 1], off) \o Tail0(rows[y + 1], off + 1)]

\* the rows once the character that follows offset off of row y is removed:
\* a byte of the row, the line break to the next row, or nothing at the end
\* of the last row
FollowingRemoved(rows, y, off) ==
    IF off < Len(rows[y + 1]) THEN Without(rows, y, off)
    ELSE IF y + 1 < Len(rows) THEN Joined(rows, y + 1)
    ELSE rows

\* C23: Delete removes the character that follows the cursor, joining the
\* row with the next one when the cursor is at the end of a row that is not
\* the last, and leaves every character before the cursor in place, at every
\* cursor position, the end of the last row included.
C23_DeleteRemovesFollowing ==
    [][DeleteStep =>
        Rows(state') = FollowingRemoved(Rows(state), state.cy,
                                        state.cx - state.linenooff)]_vars

\* an Enter of the main loop that editorInsertNewLine completed
EnterStep == mode = "normal" /\ key' = CR /\ mode' # "crashed"

\* the rows of a buffer once row y (counted from 0) is split at offset off:
\* the row keeps the bytes before off and a new next row holds the rest; at
\* offset 0 this is a new empty row before row y
SplitAt(rows, y, off) ==
    [i \in 1..(Len(rows) + 1) |->
        IF i <= y THEN rows[i]
        ELSE IF i = y + 1 THEN Take(rows[y + 1], off)
        ELSE IF i = y + 2 THEN Tail0(rows[y + 1], off)
        ELSE rows[i - 1]]

\* C24: Enter with the cursor at the start of a row inserts an empty row
\* before it, and otherwise splits the row at the cursor: the row keeps the
\* text before the cursor and a new next row holds the rest. The row count
\* grows by one, the other rows stay as they were, and the cursor ends one
\* row down at the start column of that row (character offset 0).
C24_NewLineSplits ==
    [][EnterStep =>
        /\ Rows(state') = SplitAt(Rows(state), state.cy, state.cx - state.linenooff)
        /\ state'.textrows = state.textrows + 1
        /\ state'.cy = state.cy + 1
        /\ state'.cx - gutterWidth(state') = 0]_vars

\* a character of the main loop that the default case passes to editorInsertChar
TypeStep == mode = "normal" /\ key' \in {ChA, SPACE, TAB}

\* the rows of a buffer with byte c inserted at offset off of row y (rows
\* counted from 0): the bytes before off stay, the bytes from off on move
\* right by one
WithByte(rows, y, off, c) ==
    [rows EXCEPT ![y + 1] = Take(rows[y + 1], off) \o <<c>> \o Tail0(rows[y + 1], off)]

\* C25: a typed character c is inserted at character offset cx - gutter width
\* of the row under the cursor, the bytes before it stay and the bytes after
\* it move right by one; the row grows by one byte, cx advances by one, cy,
\* the row count and the other rows stay as they were, and the modified
\* counter increases.
C25_InsertCharAtCursor ==
    [][TypeStep =>
        /\ mode' # "crashed"
        /\ Rows(state') = WithByte(Rows(state), state.cy,
                                   state.cx - state.linenooff, key')
        /\ state'.cx = state.cx + 1
        /\ state'.cy = state.cy
        /\ state'.textrows = state.textrows
        /\ state'.modified > state.modified]_vars

\* C26: in every state after the start the undo stack holds at least one
\* snapshot and its current index is the top of the stack: size >= 1 and
\* currStateIndex = size - 1.
C26_IndexIsTop ==
    /\ ur.size >= 1
    /\ ur.currStateIndex = ur.size - 1

\* C27: in every state reached by any keys (moves, edits, search, undo) the
\* cursor row is an existing row: 0 <= cy < row count.
C27_CursorOnRow == 0 <= state.cy /\ state.cy < state.textrows

\* the rows editorOpen leaves for a file of the given bytes (none for a start
\* without a file), and the rows main leaves when the first key is read
RowsAtOpen(d) ==
    IF d = NoFile THEN Rows(initEditor.state)
    ELSE Rows(editorOpen([initEditor EXCEPT !.disk = d], d).state)
RowsAtStart(d) == Rows(main(d, junk).state)

\* C28: whenever the modified counter is 0 the live rows are the rows of the
\* most recent file open, new-buffer initialisation or successful save (the
\* rows the bytes on the disk stand for), whatever edits, saves and undos came
\* before: a Ctrl-Q that is accepted discards no unsaved content.
C28_CleanMeansSaved ==
    state.modified = 0 => Rows(state) \in {RowsAtOpen(disk), RowsAtStart(disk)}

\* C28 witness: an undo that took back an edit and left the counter at 0
C28_Witness ==
    /\ mode = "normal" /\ key = ESC /\ buf = <<ChU>>
    /\ state.statusmsg = <<"Undo successfull!">>
    /\ state.modified = 0
    /\ state.textrows = 3
    /\ nkeys >= 2

\* Enter and then Backspace typed in the present state, the frame between the
\* two keys included
EnterThenBackspace ==
    editorProcessKeypress(
        editorRefreshScreen(editorProcessKeypress(World, CR, TRUE), junk),
        BACKSPACE, TRUE)

\* C29: for every buffer and cursor position in which a key is read, Enter
\* followed at once by Backspace completes and leaves the texts of the rows
\* exactly as they were before the Enter.
C29_NewLineThenBackspace ==
    mode = "normal" =>
        /\ EnterThenBackspace.alive
        /\ Rows(EnterThenBackspace.state) = Rows(state)

====
